---- MODULE Spec2Model ----
(***************************************************************************)
(* Model of the GitHub retrospective server actions                        *)
(* (src/app/actions/user.ts, last revision in the file, lines 212-474)     *)
(* and of the GitHub service they call (src/lib/services/github.ts).       *)
(*                                                                         *)
(* Strings are sequences of one-character strings.  Time is in             *)
(* milliseconds, as Date.getTime() gives it.  An error message is          *)
(* represented by the set of the marker substrings it contains, which is   *)
(* all the code ever asks of a message (String.includes).                  *)
(***************************************************************************)
EXTENDS Integers, Sequences, FiniteSets, TLC

VARIABLES
    store,   \* the gitHubUser collection: a sequence of documents
    now,     \* the wall clock, in ms (new Date().getTime())
    call,    \* call[c]: the state of the server-action call running in slot c
    arg,     \* input of the pure function under check (pure specifications)
    out      \* its output

vars == <<store, now, call, arg, out>>

-----------------------------------------------------------------------------
(* Bounds of the model *)

\* the clock is advanced at most MaxTicks times
MaxTicks == 2
\* all strings up to this length are format-checked; longer ones are padded
MaxLen == 3
\* the averages are taken over collections of up to this many records
MaxUsers == 3
\* the streak is computed over weeks of up to this many days
MaxDays == 3
\* the languages of a repository are among this many
MaxLangs == 4
\* the repositories are ranked in all lists of up to this many of them
MaxRepos == 3

-----------------------------------------------------------------------------
(* Characters and strings *)

LowerLetters == {"a", "b"}
UpperLetters == {"A", "B"}
Digits == {"7"}
Hyphen == "-"
Space == " "
Chars == LowerLetters \cup UpperLetters \cup Digits \cup {Hyphen, Space, "_"}

\* String.prototype.toLowerCase on one character
LowerChar(c) == CASE c = "A" -> "a" [] c = "B" -> "b" [] OTHER -> c

\* String.prototype.toLowerCase
ToLowerCase(s) == [i \in 1..Len(s) |-> LowerChar(s[i])]

RECURSIVE TrimStart(_)
TrimStart(s) == IF s # <<>> /\ Head(s) = Space THEN TrimStart(Tail(s)) ELSE s

RECURSIVE TrimEnd(_)
TrimEnd(s) ==
    IF s # <<>> /\ s[Len(s)] = Space THEN TrimEnd(SubSeq(s, 1, Len(s) - 1)) ELSE s

\* String.prototype.trim
Trim(s) == TrimEnd(TrimStart(s))

\* username.trim().toLowerCase()
Normalize(raw) == ToLowerCase(Trim(raw))

\* the class [a-z\d] under the i flag
ClassAlnum(c) == LowerChar(c) \in LowerLetters \cup Digits

\* {0,38}: the largest number of repetitions of the group
MaxRepeat == 38

\* GroupAt without the lookahead (?=[a-z\d]) after the hyphen
GroupAtNoLookahead(s, i) == ClassAlnum(s[i]) \/ s[i] = Hyphen

\* one repetition of the group (?:[a-z\d]|-(?=[a-z\d])) at position i of s
GroupAt(s, i) ==
    \/ ClassAlnum(s[i])
    \/ s[i] = Hyphen /\ i + 1 <= Len(s) /\ ClassAlnum(s[i + 1])

\* /^[a-z\d](?:[a-z\d]|-(?=[a-z\d])){0,38}$/i .test(s)
UsernameRegexTest(s) ==
    /\ Len(s) >= 1
    /\ ClassAlnum(s[1])
    /\ Len(s) - 1 <= MaxRepeat
    /\ \A i \in 2..Len(s) : GroupAt(s, i)

\* Validate without the test for the empty string
ValidateNoEmptyCheck(raw) ==
    IF ~UsernameRegexTest(Normalize(raw)) THEN "invalid" ELSE "ok"

\* the validation both entry points start with: the verdict on a raw input
Validate(raw) ==
    LET trimmedUsername == Normalize(raw) IN
    IF trimmedUsername = <<>> THEN "empty"
    ELSE IF ~UsernameRegexTest(trimmedUsername) THEN "invalid"
    ELSE "ok"

-----------------------------------------------------------------------------
(* Optional values: null / undefined is the empty sequence, a value v is <<v>> *)

Null == <<>>
Undefined == <<>>
Some(v) == <<v>>
The(o) == o[1]

-----------------------------------------------------------------------------
(* The GitHub service: payloads and the metrics computed from them *)

\* a calendar is a sequence of weeks, a week a sequence of contributionCounts;
\* WeekOf(n) is a week of n days with one contribution each
WeekOf(n) == [i \in 1..n |-> 1]

\* the owned repositories of a response: n of them, with 2, 3, ... stars
ReposOf(n) == [i \in 1..n |-> [stargazerCount |-> i + 1]]

\* the responses of USER_STATS_QUERY the API gives here: an empty year (no
\* commit, no issue, no repository, one pull request), or a year of two
\* commits made on two consecutive days of the first week, three pull
\* requests, four issues and two repositories
SampleCommits == {0, 2}
PayloadOf(n) ==
    [totalCommitContributions |-> n,
     totalPullRequestContributions |-> n + 1,
     totalIssueContributions |-> 2 * n,
     weeks |-> <<WeekOf(n), <<0>>>>,
     repositories |-> ReposOf(n)]
Payloads == {PayloadOf(n) : n \in SampleCommits}

\* weeks.flatMap((week) => week.contributionDays)
RECURSIVE FlatMap(_)
FlatMap(weeks) == IF weeks = <<>> THEN <<>> ELSE Head(weeks) \o FlatMap(Tail(weeks))

Max(a, b) == IF a >= b THEN a ELSE b

\* the loop of calculateLongestStreak over allDays from day i on, with the
\* loop variables longestStreak and currentStreak
RECURSIVE StreakLoop(_, _, _, _)
StreakLoop(allDays, i, longestStreak, currentStreak) ==
    IF i > Len(allDays) THEN longestStreak
    ELSE IF allDays[i] > 0
         THEN StreakLoop(allDays, i + 1, Max(longestStreak, currentStreak + 1),
                         currentStreak + 1)
         ELSE StreakLoop(allDays, i + 1, longestStreak, 0)

\* calculateLongestStreak with the scan started anew for every week
calculateLongestStreakPerWeek(weeks) ==
    LET perWeek == {StreakLoop(weeks[w], 1, 0, 0) : w \in 1..Len(weeks)} IN
    IF perWeek = {} THEN 0 ELSE CHOOSE m \in perWeek : \A n \in perWeek : m >= n

calculateLongestStreak(weeks) == StreakLoop(FlatMap(weeks), 1, 0, 0)

\* Array.prototype.sort with a comparator (a, b) => key(b) - key(a), on the
\* pairs <<key, element>>: descending by key, elements of equal key staying
\* in their order (the sort is stable)
RECURSIVE InsertDescending(_, _)
InsertDescending(sorted, pair) ==
    IF sorted = <<>> THEN <<pair>>
    ELSE IF Head(sorted)[1] >= pair[1]
         THEN <<Head(sorted)>> \o InsertDescending(Tail(sorted), pair)
         ELSE <<pair>> \o sorted

RECURSIVE SortDescending(_)
SortDescending(pairs) ==
    IF pairs = <<>> THEN <<>>
    ELSE InsertDescending(SortDescending(SubSeq(pairs, 1, Len(pairs) - 1)),
                          pairs[Len(pairs)])

\* Array.prototype.slice(0, n)
Slice(seq, n) == SubSeq(seq, 1, IF Len(seq) < n THEN Len(seq) ELSE n)

\* languageBytes, a Map<string, number>: the sequence of its entries
\* <<name, bytes>> in the order of their insertion
MapGet(map, name) ==
    LET found == SelectSeq(map, LAMBDA entry : entry[1] = name) IN
    IF found = <<>> THEN Undefined ELSE Some(found[1][2])

\* Map.prototype.set: the value of an entry is replaced where the entry is,
\* a new entry goes to the end
MapSet(map, name, value) ==
    IF MapGet(map, name) = Undefined THEN Append(map, <<name, value>>)
    ELSE [i \in 1..Len(map) |-> IF map[i][1] = name THEN <<name, value>> ELSE map[i]]

\* AddEdges forgetting the bytes already counted for the language
RECURSIVE AddEdgesOverwriting(_, _)
AddEdgesOverwriting(languageBytes, edges) ==
    IF edges = <<>> THEN languageBytes
    ELSE AddEdgesOverwriting(MapSet(languageBytes, Head(edges).node.name,
                                    Head(edges).size),
                             Tail(edges))

\* the inner loop of aggregateLanguages over the edges of one repository
RECURSIVE AddEdges(_, _)
AddEdges(languageBytes, edges) ==
    IF edges = <<>> THEN languageBytes
    ELSE LET edge == Head(edges)
             got == MapGet(languageBytes, edge.node.name)
             \* languageBytes.get(name) || 0
             current == IF got = Undefined \/ The(got) = 0 THEN 0 ELSE The(got)
         IN  AddEdges(MapSet(languageBytes, edge.node.name, current + edge.size),
                      Tail(edges))

\* the outer loop over the repositories
RECURSIVE AddRepositories(_, _)
AddRepositories(languageBytes, repositories) ==
    IF repositories = <<>> THEN languageBytes
    ELSE AddRepositories(AddEdges(languageBytes,
                                  Head(repositories).repository.languages.edges),
                         Tail(repositories))

\* Array.from(languageBytes.values()).reduce((a, b) => a + b, 0)
RECURSIVE SumValues(_)
SumValues(map) == IF map = <<>> THEN 0 ELSE map[1][2] + SumValues(Tail(map))

\* PercentageOf with Math.floor in the place of Math.round
PercentageOfTruncated(bytes, totalBytes) == (1000 * bytes) \div totalBytes

\* Math.round((bytes / totalBytes) * 100 * 10) / 10, a number with one
\* decimal, kept as the integer number of tenths of a percent:
\* floor(1000 * bytes / totalBytes + 1/2)
PercentageOf(bytes, totalBytes) == (2000 * bytes + totalBytes) \div (2 * totalBytes)

\* aggregateLanguages: percentage is in tenths of a percent
aggregateLanguages(repositories) ==
    LET languageBytes == AddRepositories(<<>>, repositories)
        totalBytes == SumValues(languageBytes)
    IN  IF totalBytes = 0 THEN <<>>
        ELSE LET mapped == [i \in 1..Len(languageBytes) |->
                               [name |-> languageBytes[i][1],
                                percentage |-> PercentageOf(languageBytes[i][2], totalBytes)]]
                 sorted == SortDescending([i \in 1..Len(mapped) |->
                                              <<mapped[i].percentage, mapped[i]>>])
             IN  Slice([i \in 1..Len(sorted) |-> sorted[i][2]], 10)

\* the array `contributions` after contributions.sort((a, b) =>
\* b.contributions.totalCount - a.contributions.totalCount), which sorts the
\* array in place
SortedByCommits(contributions) ==
    LET sorted == SortDescending([i \in 1..Len(contributions) |->
                      <<contributions[i].contributions.totalCount, contributions[i]>>])
    IN  [i \in 1..Len(sorted) |-> sorted[i][2]]

\* the element of topRepos made from an element of the array
TopRepo(c) ==
    [name |-> c.repository.name, owner |-> c.repository.owner.login,
     commits |-> c.contributions.totalCount, additions |-> 0, deletions |-> 0,
     url |-> c.repository.url]

\* getTopRepos with the comparator turned around: ascending by commit count
getTopReposAscending(contributions) ==
    LET sorted == SortedByCommits(contributions)
        kept == Slice([i \in 1..Len(sorted) |-> sorted[Len(sorted) + 1 - i]], 5)
    IN  [i \in 1..Len(kept) |-> TopRepo(kept[i])]

\* getTopRepos: the value it returns
getTopRepos(contributions) ==
    LET kept == Slice(SortedByCommits(contributions), 5)
    IN  [i \in 1..Len(kept) |-> TopRepo(kept[i])]

\* countReposCreatedIn2025: createdAt is Undefined or the year getFullYear
\* reads from the date
countReposCreatedIn2025(repos) ==
    Len(SelectSeq(repos, LAMBDA repo :
            /\ repo.createdAt # Undefined
            /\ The(repo.createdAt) = 2025 /\ ~repo.isFork))

\* repos.filter((repo) => repo.isFork).length
countForkedRepos(repos) == Len(SelectSeq(repos, LAMBDA repo : repo.isFork))

\* repos.reduce((total, repo) => total + repo.stargazerCount, 0)
RECURSIVE calculateStarsReceived(_)
calculateStarsReceived(repos) ==
    IF repos = <<>> THEN 0
    ELSE calculateStarsReceived(SubSeq(repos, 1, Len(repos) - 1))
         + repos[Len(repos)].stargazerCount

\* message.split("\n")[0]: a message is the sequence of its characters
Newline == "\n"
RECURSIVE FirstLine(_)
FirstLine(message) ==
    IF message = <<>> \/ Head(message) = Newline THEN <<>>
    ELSE <<Head(message)>> \o FirstLine(Tail(message))

\* the loop of lines 319-324 over the repositories of a COMMITS_QUERY
\* response: defaultBranchRef is Null or the nodes of the history
RECURSIVE AllCommits(_)
AllCommits(repos) ==
    IF repos = <<>> THEN <<>>
    ELSE (IF Head(repos).repository.defaultBranchRef # Null
          THEN The(Head(repos).repository.defaultBranchRef)
          ELSE <<>>) \o AllCommits(Tail(repos))

\* SortByDate with the comparator turned around: latest commit first
SortByDateDescending(allCommits) ==
    LET sorted == SortDescending([i \in 1..Len(allCommits) |->
                      <<allCommits[i].committedDate, allCommits[i]>>])
    IN  [i \in 1..Len(sorted) |-> sorted[i][2]]

\* allCommits.sort((a, b) => new Date(a.committedDate).getTime() -
\* new Date(b.committedDate).getTime()): committedDate is the instant the
\* string denotes; ascending is descending by the negated instant
SortByDate(allCommits) ==
    LET sorted == SortDescending([i \in 1..Len(allCommits) |->
                      <<0 - allCommits[i].committedDate, allCommits[i]>>])
    IN  [i \in 1..Len(sorted) |-> sorted[i][2]]

\* the CommitInfo made from a node, lines 341-346
CommitInfo(commit) ==
    [date |-> commit.committedDate,
     repo |-> <<commit.repository.owner.login, "/", commit.repository.name>>,
     message |-> FirstLine(commit.message),
     url |-> commit.url]

\* fetchFirstAndLastCommits: answer is the response of COMMITS_QUERY, or
\* Null when the query rejects (the catch block of lines 354-357)
fetchFirstAndLastCommits(answer) ==
    IF answer = Null THEN [first |-> Null, last |-> Null]
    ELSE LET allCommits == AllCommits(The(answer)) IN
         IF Len(allCommits) = 0 THEN [first |-> Null, last |-> Null]
         ELSE LET sorted == SortByDate(allCommits) IN
              [first |-> Some(CommitInfo(sorted[1])),
               last |-> Some(CommitInfo(sorted[Len(sorted)]))]

\* the metrics object fetchGitHubMetrics builds from a response: the object
\* literal has no contributionCalendar property
BuildMetrics(response) ==
    [totalCommits |-> response.totalCommitContributions,
     longestStreak |-> calculateLongestStreak(response.weeks),
     totalPRs |-> response.totalPullRequestContributions,
     totalIssues |-> response.totalIssueContributions,
     starsReceived |-> calculateStarsReceived(response.repositories),
     contributionCalendar |-> Undefined]

\* the metrics object with the two properties firstCommit and lastCommit
\* that fetchFirstAndLastCommits resolved with (lines 388-389, 405-406)
MetricsWithCommits(response, commits) ==
    LET metrics == BuildMetrics(response) IN
    [totalCommits |-> metrics.totalCommits,
     longestStreak |-> metrics.longestStreak,
     totalPRs |-> metrics.totalPRs,
     totalIssues |-> metrics.totalIssues,
     starsReceived |-> metrics.starsReceived,
     contributionCalendar |-> metrics.contributionCalendar,
     firstCommit |-> commits.first,
     lastCommit |-> commits.last]

\* the metrics fetchGitHubMetrics can return
FetchedMetrics == {BuildMetrics(r) : r \in Payloads}

\* the values of type GitHubMetrics a caller of upsertUser can pass: with the
\* calendar (the declared type) or without it (records of the older schema)
MetricsValues ==
    FetchedMetrics \cup
    {[BuildMetrics(r) EXCEPT !.contributionCalendar = Some(r.weeks)] : r \in Payloads}

-----------------------------------------------------------------------------
(* Error messages: the set of marker substrings a message contains *)

Markers == {"Bad credentials", "401", "rate limit", "Could not resolve to a User"}

\* the messages thrown here: one without any marker, one with each marker, and
\* two with a pair of markers that the code has to rank
ErrorMessages ==
    {{}} \cup {{m} : m \in Markers} \cup
    {{"Bad credentials", "rate limit"}, {"Could not resolve to a User", "401"}}

\* errorMessage.includes(marker)
Includes(errorMessage, marker) == marker \in errorMessage

-----------------------------------------------------------------------------
(* The User Store *)

\* the gitHubUser collection as the database is set up: empty, with username
\* as its unique key, so that the match and the insert of an upsert are one
\* step of the database
gitHubUser == <<>>

\* Cache duration: 3 days in milliseconds
CACHE_DURATION_MS == 3 * 24 * 60 * 60 * 1000

\* collection.findOne({ username: key }): the first matching document
RECURSIVE FindOne(_, _)
FindOne(coll, key) ==
    IF coll = <<>> THEN Null
    ELSE IF Head(coll).username = key THEN Some(Head(coll))
    ELSE FindOne(Tail(coll), key)

\* getUserByUsername, when the database answers
getUserByUsername(coll, username) ==
    LET user == FindOne(coll, ToLowerCase(username)) IN
    IF user = Null THEN Null
    ELSE Some([username |-> The(user).username,
               fetchedAt |-> The(user).fetchedAt,
               metrics |-> The(user).metrics])

\* SetFields merging the new metrics into the old ones: a field the new
\* metrics lack keeps its old value
SetFieldsMerging(doc, fields) ==
    [doc EXCEPT !.username = fields.username,
                !.fetchedAt = fields.fetchedAt,
                !.metrics = [fields.metrics EXCEPT !.contributionCalendar =
                                IF @ = Undefined THEN doc.metrics.contributionCalendar
                                ELSE @]]

\* SetFields with the later of the two dates kept: fetchedAt is not set to
\* an earlier date than the document has
SetFieldsLatestDate(doc, fields) ==
    [doc EXCEPT !.username = fields.username,
                !.fetchedAt = IF doc.fetchedAt > fields.fetchedAt THEN doc.fetchedAt
                              ELSE fields.fetchedAt,
                !.metrics = fields.metrics]

\* the document after { $set: { username, fetchedAt, metrics } }
SetFields(doc, fields) ==
    [doc EXCEPT !.username = fields.username,
                !.fetchedAt = fields.fetchedAt,
                !.metrics = fields.metrics]

\* UpdateOne with $setOnInsert for $set: a matching document is left as it is
UpdateOneSetOnInsert(coll, key, fields) ==
    IF \E i \in 1..Len(coll) : coll[i].username = key THEN coll
    ELSE Append(coll, [username |-> fields.username, fetchedAt |-> fields.fetchedAt,
                       metrics |-> fields.metrics])

\* UpdateOne as an insertOne: a document is added whether or not one matches
UpdateOneInsert(coll, key, fields) ==
    Append(coll, [username |-> key, fetchedAt |-> fields.fetchedAt,
                  metrics |-> fields.metrics])

\* collection.updateOne({ username: key }, { $set: fields }, { upsert: true }):
\* the first matching document is updated; when none matches, the document made
\* of the filter and the $set fields is inserted
RECURSIVE UpdateOne(_, _, _)
UpdateOne(coll, key, fields) ==
    IF coll = <<>> THEN <<SetFields([username |-> key,
                                     fetchedAt |-> fields.fetchedAt,
                                     metrics |-> fields.metrics], fields)>>
    ELSE IF Head(coll).username = key
         THEN <<SetFields(Head(coll), fields)>> \o Tail(coll)
         ELSE <<Head(coll)>> \o UpdateOne(Tail(coll), key, fields)

\* UpsertRecord with the username as it was passed, not lowercased
UpsertRecordRawName(username, metrics, at) ==
    [username |-> username, fetchedAt |-> at, metrics |-> metrics]

\* the record upsertUser writes and returns, fetchedAt being its new Date()
UpsertRecord(username, metrics, at) ==
    [username |-> ToLowerCase(username), fetchedAt |-> at, metrics |-> metrics]

\* upsertUser without toLowerCase: the username is the key as it is passed
upsertUserRawKey(coll, username, metrics, at) ==
    UpdateOne(coll, username,
              [username |-> username, fetchedAt |-> at, metrics |-> metrics])

\* the collection after upsertUser(username, metrics) took its new Date() at `at`
upsertUser(coll, username, metrics, at) ==
    UpdateOne(coll, ToLowerCase(username), UpsertRecord(username, metrics, at))

\* isDataFresh with age <= CACHE_DURATION_MS for notExpired
isDataFreshInclusive(user, clock) ==
    LET age == clock - user.fetchedAt
        notExpired == age <= CACHE_DURATION_MS
        hasAllFields == user.metrics.contributionCalendar # Undefined
    IN  notExpired /\ hasAllFields

\* isDataFresh(user), evaluated when the clock shows `clock`
isDataFresh(user, clock) ==
    LET age == clock - user.fetchedAt
        notExpired == age < CACHE_DURATION_MS
        hasAllFields == user.metrics.contributionCalendar # Undefined
    IN  notExpired /\ hasAllFields

\* the sum of a metrics field over the documents
RECURSIVE SumField(_, _)
SumField(coll, field) ==
    IF coll = <<>> THEN 0 ELSE Head(coll).metrics[field] + SumField(Tail(coll), field)

\* { $avg: "$metrics.<field>" } over a group of documents: the quotient
\* sum / count, kept as the pair <<sum, count>>
Avg(coll, field) == <<SumField(coll, field), Len(coll)>>

\* collection.aggregate([{ $group: { _id: null, ... } }]).toArray(): one
\* document for the group of all documents, none for the empty collection
Aggregate(coll) ==
    IF coll = <<>> THEN <<>>
    ELSE <<[avgCommits |-> Avg(coll, "totalCommits"),
            avgStreak |-> Avg(coll, "longestStreak"),
            avgPRs |-> Avg(coll, "totalPRs"),
            avgIssues |-> Avg(coll, "totalIssues"),
            avgStars |-> Avg(coll, "starsReceived"),
            count |-> Len(coll)]>>

\* Math.floor in the place of Math.round
MathFloor(q) == q[1] \div q[2]

\* Math.round of the quotient q[1] / q[2]: floor(x + 0.5); \div rounds down
MathRound(q) == (2 * q[1] + q[2]) \div (2 * q[2])

\* getAverageStats, when the database answers; stats?.avgX ?? 0 is the
\* quotient 0 / 1
getAverageStats(coll) ==
    LET result == Aggregate(coll)
        OrZero(field) == IF result = <<>> THEN <<0, 1>> ELSE result[1][field]
    IN  [totalCommits |-> MathRound(OrZero("avgCommits")),
         longestStreak |-> MathRound(OrZero("avgStreak")),
         totalPRs |-> MathRound(OrZero("avgPRs")),
         totalIssues |-> MathRound(OrZero("avgIssues")),
         starsReceived |-> MathRound(OrZero("avgStars")),
         userCount |-> IF result = <<>> THEN 0 ELSE result[1].count]

-----------------------------------------------------------------------------
(* Calls of the server actions *)

Slots == {1, 2}

\* the raw usernames the callers pass: "", " ", "Ab", " ab ", "7", "-a", "a_"
RawInputs ==
    {<<>>, <<" ">>, <<"A", "b">>, <<" ", "a", "b", " ">>, <<"7">>,
     <<"-", "a">>, <<"a", "_">>}

\* what direct callers of upsertUser pass: any metrics for "Ab", and the
\* metrics of the empty year for "7"
DirectUpserts ==
    ({<<"A", "b">>} \X MetricsValues) \cup
    {<<(<<"7">>), BuildMetrics(r)>> : r \in {p \in Payloads : p.totalCommitContributions = 0}}

\* the user-facing messages of lookupUser
MsgEmpty == "Username is required"
MsgInvalid == "Invalid GitHub username format"
MsgNotFound == "GitHub user not found"
MsgAuth == "GitHub API authentication failed. Please check GITHUB_TOKEN."
MsgRateLimit == "GitHub API rate limit exceeded. Please try again later."
MsgFetchFailed == "Failed to fetch GitHub data. Please try again."

\* how a call ended: lookupUser resolves to "success" (with user) or "failure"
\* (with error); getOrFetchUser resolves to "user" (with user) or "null"; either
\* rejects with "throws" (with the thrown message)
NoResult == [kind |-> "none", user |-> Null, error |-> "", thrown |-> {}]
Success(user) == [NoResult EXCEPT !.kind = "success", !.user = Some(user)]
Failure(error) == [NoResult EXCEPT !.kind = "failure", !.error = error]
UserResult(user) == [NoResult EXCEPT !.kind = "user", !.user = Some(user)]
NullResult == [NoResult EXCEPT !.kind = "null"]
Throws(message) == [NoResult EXCEPT !.kind = "throws", !.thrown = message]

\* a slot in which no call runs.  Besides the locals of the running function
\* (trimmedUsername, cachedUser, metrics, the `now` of upsertUser as `at`) a call
\* keeps a record of what it did: how its probe query ended (probeAnswer,
\* probeError), the error it caught and the step that threw it (error,
\* failedAt), and how often getUserByUsername, checkUserExists and
\* fetchGitHubMetrics settled for it and its updateOne was applied (reads,
\* probes, fetches, upserts)
IdleCall ==
    [fn |-> "none", pc |-> "idle", raw |-> <<>>, trimmedUsername |-> <<>>,
     cachedUser |-> Null, metrics |-> Null, at |-> 0,
     error |-> {}, failedAt |-> "none", result |-> NoResult,
     probeAnswer |-> "none", probeError |-> {},
     reads |-> 0, probes |-> 0, fetches |-> 0, upserts |-> 0,
     response |-> Null, commits |-> "none"]

\* the call returns: its locals cachedUser, metrics and now are gone; what it
\* did (the error it caught, the counts of its calls) stays on record
Finish(k, result) ==
    [k EXCEPT !.pc = "done", !.result = result,
              !.cachedUser = Null, !.metrics = Null, !.at = 0]

\* LookupCatch without the stale fallback: an unclassified error fails at once
LookupCatchNoFallback(k, step, errorMessage) ==
    LET k1 == [k EXCEPT !.error = errorMessage, !.failedAt = step] IN
    IF Includes(errorMessage, "Bad credentials") \/ Includes(errorMessage, "401")
    THEN Finish(k1, Failure(MsgAuth))
    ELSE IF Includes(errorMessage, "rate limit")
    THEN Finish(k1, Failure(MsgRateLimit))
    ELSE Finish(k1, Failure(MsgFetchFailed))

\* LookupCatch with the two tests in the other order: rate limit first
LookupCatchRateLimitFirst(k, step, errorMessage) ==
    LET k1 == [k EXCEPT !.error = errorMessage, !.failedAt = step] IN
    IF Includes(errorMessage, "rate limit")
    THEN Finish(k1, Failure(MsgRateLimit))
    ELSE IF Includes(errorMessage, "Bad credentials") \/ Includes(errorMessage, "401")
    THEN Finish(k1, Failure(MsgAuth))
    ELSE [k1 EXCEPT !.pc = "fallback"]

\* the catch block of lookupUser (lines 451-473) up to its await: the error
\* thrown at step `step` is classified by its message
LookupCatch(k, step, errorMessage) ==
    LET k1 == [k EXCEPT !.error = errorMessage, !.failedAt = step] IN
    IF Includes(errorMessage, "Bad credentials") \/ Includes(errorMessage, "401")
    THEN Finish(k1, Failure(MsgAuth))
    ELSE IF Includes(errorMessage, "rate limit")
    THEN Finish(k1, Failure(MsgRateLimit))
    ELSE [k1 EXCEPT !.pc = "fallback"]

\* the catch block of getOrFetchUser (lines 402-412)
GetOrFetchCatch(k, step, errorMessage) ==
    LET k1 == [k EXCEPT !.error = errorMessage, !.failedAt = step] IN
    IF k.cachedUser # Null THEN Finish(k1, UserResult(The(k.cachedUser)))
    ELSE Finish(k1, NullResult)

\* an error thrown inside the try block of the running function
Catch(k, step, errorMessage) ==
    IF k.fn = "lookupUser" THEN LookupCatch(k, step, errorMessage)
    ELSE GetOrFetchCatch(k, step, errorMessage)

\* the value a call returns for a record it resolved
Resolved(k, user) == IF k.fn = "lookupUser" THEN Success(user) ELSE UserResult(user)

\* lookupUser(raw) / getOrFetchUser(raw) is called: the validation runs, and
\* a valid username goes on to await getUserByUsername
Start(c, fn, raw) ==
    /\ call[c].pc = "idle"
    /\ LET k == [IdleCall EXCEPT !.fn = fn, !.raw = raw,
                                 !.trimmedUsername = Normalize(raw)]
           verdict == Validate(raw)
       IN  call' = [call EXCEPT ![c] =
              IF verdict = "empty"
              THEN Finish(k, IF fn = "lookupUser" THEN Failure(MsgEmpty) ELSE NullResult)
              ELSE IF verdict = "invalid"
              THEN Finish(k, IF fn = "lookupUser" THEN Failure(MsgInvalid) ELSE NullResult)
              ELSE [k EXCEPT !.pc = "read"]]
    /\ UNCHANGED <<store, now, arg, out>>

\* Read with the cached record never served: every call goes on to the probe
ReadSkipsCache(c) ==
    /\ call[c].pc = "read"
    /\ LET k == call[c]
           cachedUser == getUserByUsername(store, k.trimmedUsername)
       IN  call' = [call EXCEPT ![c] =
              [k EXCEPT !.reads = @ + 1, !.pc = "probe",
                        !.cachedUser = IF k.fn = "getOrFetchUser" THEN cachedUser
                                       ELSE Null]]
    /\ UNCHANGED <<store, now, arg, out>>

\* getUserByUsername answers: a fresh record is returned, otherwise the call
\* goes on to await checkUserExists
Read(c) ==
    /\ call[c].pc = "read"
    /\ LET k == call[c]
           cachedUser == getUserByUsername(store, k.trimmedUsername)
           \* lookupUser never reads its cachedUser again (its catch block
           \* declares another one), getOrFetchUser does
           k1 == [k EXCEPT !.reads = @ + 1,
                           !.cachedUser = IF k.fn = "getOrFetchUser" THEN cachedUser
                                          ELSE Null]
       IN  call' = [call EXCEPT ![c] =
              IF cachedUser # Null /\ isDataFresh(The(cachedUser), now)
              THEN Finish(k1, Resolved(k, The(cachedUser)))
              ELSE [k1 EXCEPT !.pc = "probe"]]
    /\ UNCHANGED <<store, now, arg, out>>

\* getUserByUsername rejects: lookupUser catches it, getOrFetchUser (whose
\* read is outside the try block) rejects with it
ReadFails(c, errorMessage) ==
    /\ call[c].pc = "read"
    /\ LET k == [call[c] EXCEPT !.reads = @ + 1] IN
       call' = [call EXCEPT ![c] =
          IF k.fn = "lookupUser" THEN LookupCatch(k, "read", errorMessage)
          ELSE Finish([k EXCEPT !.error = errorMessage, !.failedAt = "read"],
                      Throws(errorMessage))]
    /\ UNCHANGED <<store, now, arg, out>>

\* checkUserExists taking every error of its query for "no such user"
checkUserExistsAnyError(answer, errorMessage) ==
    IF answer = "ok" THEN "true" ELSE "false"

\* checkUserExists answering true whatever its query did
checkUserExistsAlways(answer, errorMessage) == "true"

\* checkUserExists, by what its GraphQL query did: it answered ("ok") or threw
\* an error with the given message
checkUserExists(answer, errorMessage) ==
    IF answer = "ok" THEN "true"
    ELSE IF Includes(errorMessage, "Could not resolve to a User") THEN "false"
    ELSE "throws"

\* Probe evicting the cached record of a user GitHub does not know
ProbeEvicts(c, answer, errorMessage) ==
    /\ call[c].pc = "probe"
    /\ answer = "ok" => errorMessage = {}
    /\ LET userExists == checkUserExists(answer, errorMessage)
           k == [call[c] EXCEPT !.probes = @ + 1, !.probeAnswer = answer,
                                !.probeError = errorMessage]
       IN  /\ call' = [call EXCEPT ![c] =
                 IF userExists = "throws" THEN Catch(k, "probe", errorMessage)
                 ELSE IF userExists = "false"
                 THEN Finish(k, IF k.fn = "lookupUser" THEN Failure(MsgNotFound)
                                ELSE NullResult)
                 ELSE [k EXCEPT !.pc = "fetch"]]
           /\ store' = IF userExists = "false"
                       THEN SelectSeq(store, LAMBDA r : r.username # k.trimmedUsername)
                       ELSE store
    /\ UNCHANGED <<now, arg, out>>

\* checkUserExists settles: on true the call goes on to await
\* fetchGitHubMetrics, on false it ends, and what it throws is caught
Probe(c, answer, errorMessage) ==
    /\ call[c].pc = "probe"
    /\ answer = "ok" => errorMessage = {}
    /\ LET userExists == checkUserExists(answer, errorMessage)
           k == [call[c] EXCEPT !.probes = @ + 1, !.probeAnswer = answer,
                                !.probeError = errorMessage]
       IN  call' = [call EXCEPT ![c] =
              IF userExists = "throws" THEN Catch(k, "probe", errorMessage)
              ELSE IF userExists = "false"
              THEN Finish(k, IF k.fn = "lookupUser" THEN Failure(MsgNotFound)
                             ELSE NullResult)
              ELSE [k EXCEPT !.pc = "fetch"]]
    /\ UNCHANGED <<store, now, arg, out>>

\* fetchGitHubMetrics resolves with the metrics built from the response, and
\* upsertUser is called, which awaits getDatabase
Fetch(c, response) ==
    /\ call[c].pc = "fetch"
    /\ call' = [call EXCEPT ![c] =
          [@ EXCEPT !.fetches = @ + 1, !.metrics = Some(BuildMetrics(response)),
                    !.pc = "upsert"]]
    /\ UNCHANGED <<store, now, arg, out>>

\* FetchFails with one retry: the first rejection is followed by a second
\* attempt of fetchGitHubMetrics
FetchFailsRetries(c, errorMessage) ==
    /\ call[c].pc = "fetch"
    /\ call' = [call EXCEPT ![c] =
          IF @.fetches = 0 THEN [@ EXCEPT !.fetches = @ + 1]
          ELSE Catch([@ EXCEPT !.fetches = @ + 1], "fetch", errorMessage)]
    /\ UNCHANGED <<store, now, arg, out>>

\* fetchGitHubMetrics rejects
FetchFails(c, errorMessage) ==
    /\ call[c].pc = "fetch"
    /\ call' = [call EXCEPT ![c] =
          Catch([@ EXCEPT !.fetches = @ + 1], "fetch", errorMessage)]
    /\ UNCHANGED <<store, now, arg, out>>

\* fetchGitHubMetrics, lines 363-385: USER_STATS_QUERY answers, and
\* fetchFirstAndLastCommits is awaited
FetchMain(c, response) ==
    /\ call[c].pc = "fetch"
    /\ call' = [call EXCEPT ![c] =
          [@ EXCEPT !.fetches = @ + 1, !.response = Some(response),
                    !.pc = "commits"]]
    /\ UNCHANGED <<store, now, arg, out>>

\* COMMITS_QUERY answers: fetchGitHubMetrics resolves with the metrics, and
\* upsertUser is called
CommitsAnswer(c, answer) ==
    /\ call[c].pc = "commits"
    /\ call' = [call EXCEPT ![c] =
          [@ EXCEPT !.metrics = Some(MetricsWithCommits(The(call[c].response),
                                         fetchFirstAndLastCommits(Some(answer)))),
                    !.response = Null, !.commits = "answered", !.pc = "upsert"]]
    /\ UNCHANGED <<store, now, arg, out>>

\* CommitsFail with the error of the sub-query thrown on to the caller
CommitsFailRejects(c, errorMessage) ==
    /\ call[c].pc = "commits"
    /\ call' = [call EXCEPT ![c] =
          Catch([@ EXCEPT !.response = Null, !.commits = "failed"],
                "fetch", errorMessage)]
    /\ UNCHANGED <<store, now, arg, out>>

\* COMMITS_QUERY rejects: fetchFirstAndLastCommits logs the error and
\* resolves, fetchGitHubMetrics resolves with the metrics, and upsertUser is
\* called
CommitsFail(c, errorMessage) ==
    /\ call[c].pc = "commits"
    /\ call' = [call EXCEPT ![c] =
          [@ EXCEPT !.metrics = Some(MetricsWithCommits(The(call[c].response),
                                         fetchFirstAndLastCommits(Null))),
                    !.response = Null, !.commits = "failed", !.pc = "upsert"]]
    /\ UNCHANGED <<store, now, arg, out>>

\* upsertUser, lines 248-252: the database handle is there, now = new Date()
\* is taken, and updateOne is awaited
UpsertBegin(c) ==
    /\ call[c].pc = "upsert"
    /\ call' = [call EXCEPT ![c] = [@ EXCEPT !.at = now, !.pc = "write"]]
    /\ UNCHANGED <<store, now, arg, out>>

\* updateOne is applied and upsertUser returns the record, which the call
\* returns
Write(c) ==
    /\ call[c].pc = "write"
    /\ LET k == call[c] IN
       /\ store' = upsertUser(store, k.trimmedUsername, The(k.metrics), k.at)
       /\ call' = [call EXCEPT ![c] =
             Finish([k EXCEPT !.upserts = @ + 1],
                    Resolved(k, UpsertRecord(k.trimmedUsername, The(k.metrics), k.at)))]
    /\ UNCHANGED <<now, arg, out>>

\* getDatabase or updateOne rejects: upsertUser throws, nothing is written
UpsertFails(c, errorMessage) ==
    /\ call[c].pc \in {"upsert", "write"}
    /\ call' = [call EXCEPT ![c] = Catch(@, "upsert", errorMessage)]
    /\ UNCHANGED <<store, now, arg, out>>

\* lookupUser, lines 465-472: the second getUserByUsername answers
Fallback(c) ==
    /\ call[c].pc = "fallback"
    /\ LET k == [call[c] EXCEPT !.reads = @ + 1]
           cachedUser == getUserByUsername(store, k.trimmedUsername)
       IN  call' = [call EXCEPT ![c] =
              IF cachedUser # Null THEN Finish(k, Success(The(cachedUser)))
              ELSE Finish(k, Failure(MsgFetchFailed))]
    /\ UNCHANGED <<store, now, arg, out>>

\* the second getUserByUsername rejects, inside the catch block: lookupUser
\* rejects
FallbackFails(c, errorMessage) ==
    /\ call[c].pc = "fallback"
    /\ call' = [call EXCEPT ![c] =
          Finish([@ EXCEPT !.reads = @ + 1], Throws(errorMessage))]
    /\ UNCHANGED <<store, now, arg, out>>

\* the caller has the result: the slot is free for the next call
Return(c) ==
    /\ call[c].pc = "done"
    /\ call' = [call EXCEPT ![c] = IdleCall]
    /\ UNCHANGED <<store, now, arg, out>>

\* a direct call of the exported upsertUser(username, metrics), start to end
UpsertUserCall(username, metrics) ==
    /\ store' = upsertUser(store, username, metrics, now)
    /\ UNCHANGED <<now, call, arg, out>>

\* the clock advances by a day and a half: half the cache duration
TickMs == CACHE_DURATION_MS \div 2
Tick ==
    /\ now < MaxTicks * TickMs
    /\ now' = now + TickMs
    /\ UNCHANGED <<store, call, arg, out>>

-----------------------------------------------------------------------------
(* The specification of the server actions: one lookup at a time in slot 1, *)
(* direct upserts and the clock in between its steps                        *)

Init ==
    /\ store = gitHubUser
    /\ now = 0
    /\ call = [c \in Slots |-> IdleCall]
    /\ arg = <<>>
    /\ out = <<>>

Step(c) ==
    \/ \E raw \in RawInputs : Start(c, "lookupUser", raw)
    \/ \E raw \in RawInputs : Start(c, "getOrFetchUser", raw)
    \/ Read(c)
    \/ \E e \in ErrorMessages : ReadFails(c, e)
    \/ \E answer \in {"ok", "error"}, e \in ErrorMessages : Probe(c, answer, e)
    \/ \E response \in Payloads : Fetch(c, response)
    \/ \E e \in ErrorMessages : FetchFails(c, e)
    \/ UpsertBegin(c)
    \/ Write(c)
    \/ \E e \in ErrorMessages : UpsertFails(c, e)
    \/ Fallback(c)
    \/ \E e \in ErrorMessages : FallbackFails(c, e)
    \/ Return(c)

Next ==
    \/ Step(1)
    \/ \E d \in DirectUpserts : UpsertUserCall(d[1], d[2])
    \/ Tick

Spec == Init /\ [][Next]_vars

-----------------------------------------------------------------------------
(* The specification of the User Store alone: direct calls of upsertUser,   *)
(* for three keys, and the clock                                            *)

\* the usernames passed: "Ab", "ab", "7" and " aB" (upsertUser does not trim)
StoreUpserts ==
    {<<"A", "b">>, <<"a", "b">>, <<"7">>, <<" ", "a", "B">>} \X MetricsValues

StoreNext ==
    \/ \E d \in StoreUpserts : UpsertUserCall(d[1], d[2])
    \/ Tick

SpecStore == Init /\ [][StoreNext]_vars

-----------------------------------------------------------------------------
(* The specification of concurrent calls: a call in each slot, their steps  *)
(* interleaved at the awaits, direct upserts and the clock in between       *)

\* the inputs of the concurrent calls: "Ab" and " ab ", one store key
ConcInputs == {<<"A", "b">>, <<" ", "a", "b", " ">>}

\* the calls made: lookupUser("Ab") in slot 1, and beside it either function
\* with either input in slot 2
ConcCalls(c) ==
    IF c = 1 THEN {<<"lookupUser", <<"A", "b">>>>}
    ELSE {"lookupUser", "getOrFetchUser"} \X ConcInputs

\* the errors thrown at them: one that lookupUser ends on, one it falls back on
ConcErrors == {{"rate limit"}, {}}

\* the direct upserts made beside them: the empty year for "7", and the
\* schema-complete metrics of the other year for "Ab"
ConcUpserts ==
    {d \in DirectUpserts :
        \/ d[1] = <<"7">>
        \/ d[2].totalCommits > 0 /\ d[2].contributionCalendar # Undefined}

ConcStep(c) ==
    \/ \E f \in ConcCalls(c) : Start(c, f[1], f[2])
    \/ Read(c)
    \/ \E answer \in {"ok", "error"}, e \in ConcErrors : Probe(c, answer, e)
    \/ \E response \in Payloads : Fetch(c, response)
    \/ \E e \in ConcErrors : FetchFails(c, e)
    \/ UpsertBegin(c)
    \/ Write(c)
    \/ \E e \in ConcErrors : UpsertFails(c, e)
    \/ Fallback(c)

ConcNext ==
    \/ \E c \in Slots : ConcStep(c)
    \/ \E d \in ConcUpserts : UpsertUserCall(d[1], d[2])
    \/ Tick

SpecConc == Init /\ [][ConcNext]_vars

-----------------------------------------------------------------------------
(* Specifications of the pure functions: the input is drawn by the initial  *)
(* state into arg, and the one action applies the function to it            *)

\* the state in which nothing has run, with the input `input`
PureInit(inputs) ==
    /\ store = gitHubUser
    /\ now = 0
    /\ call = [c \in Slots |-> IdleCall]
    /\ arg \in inputs
    /\ out = <<>>

\* the function's result is there
Apply(result) ==
    /\ out = <<>>
    /\ out' = <<result>>
    /\ UNCHANGED <<store, now, call, arg>>

\* clock readings: every tick of the clock, and a millisecond before and after
ClockSamples == {t \in {k * TickMs + d : k \in 0..MaxTicks, d \in {-1, 0, 1}} : t >= 0}

\* isDataFresh: a record fetched at any sampled time, with any metrics, looked
\* at at any sampled time
FreshInputs ==
    [user : [username : {<<"a", "b">>}, fetchedAt : ClockSamples, metrics : MetricsValues],
     clock : ClockSamples]
FreshInit == PureInit(FreshInputs)
FreshNext == Apply(isDataFresh(arg.user, arg.clock))
SpecFresh == FreshInit /\ [][FreshNext]_vars

\* all strings of up to n characters, and the string of n "a"
Strings(n) == UNION {[1..k -> Chars] : k \in 0..n}
Fill(n) == [i \in 1..n |-> "a"]

\* calculateLongestStreak: every calendar of up to two weeks of up to MaxDays
\* days, a day having no contribution or three
DayCounts == {0, 3}
StreakInputs ==
    LET weeks == UNION {[1..d -> DayCounts] : d \in 0..MaxDays} IN
    UNION {[1..w -> weeks] : w \in 0..2}
StreakInit == PureInit(StreakInputs)
StreakNext == Apply(calculateLongestStreak(arg))
SpecStreak == StreakInit /\ [][StreakNext]_vars

\* an element of commitContributionsByRepository
Contribution(name, totalCount, edges) ==
    [repository |-> [name |-> name, owner |-> [login |-> "o"], url |-> <<"u", name>>,
                     languages |-> [edges |-> edges]],
     contributions |-> [totalCount |-> totalCount]]

\* aggregateLanguages: no repository; one repository in which each of the
\* first MaxLangs languages is absent or has 0, 3 or 5 bytes; the same with a
\* second repository of one language of 3 or 5 bytes; and one repository of
\* eleven languages of 1 to 11 bytes
AllLanguages == <<"C", "Go", "JS", "TS", "Py", "Rb", "Rs", "Kt", "Sw", "Hs", "Ml", "Ex">>
Edge(i, size) == [size |-> size, node |-> [name |-> AllLanguages[i]]]
LanguageInputs ==
    LET first == {Contribution("r", 1, SelectSeq([i \in 1..MaxLangs |-> Edge(i, f[i])],
                                                 LAMBDA edge : edge.size >= 0)) :
                     f \in [1..MaxLangs -> {-1, 0, 3, 5}]}
        second == {Contribution("s", 1, <<Edge(i, size)>>) :
                      i \in 1..MaxLangs, size \in {3, 5}}
    IN  {<<>>} \cup {<<r>> : r \in first} \cup (first \X second)
        \cup {<<Contribution("r", 1, [i \in 1..11 |-> Edge(i, i)])>>}
LanguageInit == PureInit(LanguageInputs)
LanguageNext == Apply(aggregateLanguages(arg))
SpecLanguages == LanguageInit /\ [][LanguageNext]_vars

\* getTopRepos: the repositories are named by their place in the list; every
\* list of up to MaxRepos repositories with 0 to 2 commits, every list of six
\* with 1 or 2 commits, and every list of seven with the commit counts 1 to 7
\* in some order
RepoList(counts) ==
    [i \in 1..Len(counts) |-> Contribution(<<"r", i>>, counts[i], <<>>)]
RepoInputs ==
    {RepoList(counts) : counts \in UNION {[1..n -> 0..2] : n \in 0..MaxRepos}}
    \cup {RepoList(counts) : counts \in [1..6 -> 1..2]}
    \cup {RepoList(counts) : counts \in {f \in [1..7 -> 1..7] :
                                             \A i, j \in 1..7 : f[i] = f[j] => i = j}}
RepoInit == PureInit(RepoInputs)
RepoNext == Apply(getTopRepos(arg))
SpecRepos == RepoInit /\ [][RepoNext]_vars

\* The aggregator functions called on a response held in memory: arg is the
\* response object as it is now, out the last call, with the function, the
\* response as it was when the call began, and the value returned.
\* user.repositories.nodes: a repository of 2025, a fork of 2025, one without
\* createdAt and one of 2024
OwnedRepos ==
    <<[stargazerCount |-> 2, isFork |-> FALSE, createdAt |-> Some(2025)],
      [stargazerCount |-> 3, isFork |-> TRUE, createdAt |-> Some(2025)],
      [stargazerCount |-> 0, isFork |-> FALSE, createdAt |-> Undefined],
      [stargazerCount |-> 1, isFork |-> FALSE, createdAt |-> Some(2024)]>>
AggregatorInputs ==
    {[weeks |-> <<WeekOf(n), <<0>>>>,
      commitContributionsByRepository |->
          [i \in 1..Len(counts) |->
              Contribution(<<"r", i>>, counts[i], <<Edge(1 + (i % 2), 3)>>)],
      nodes |-> SubSeq(OwnedRepos, 1, 2 * n)] :
        n \in SampleCommits, counts \in UNION {[1..k -> 0..2] : k \in 0..MaxRepos}}
AggregatorInit == PureInit(AggregatorInputs)

\* a function that only reads its argument
Called(fn, result) ==
    /\ out' = <<[fn |-> fn, before |-> arg, result |-> <<result>>]>>
    /\ UNCHANGED <<store, now, call, arg>>

CallLongestStreak == Called("calculateLongestStreak", calculateLongestStreak(arg.weeks))
CallReposCreated == Called("countReposCreatedIn2025", countReposCreatedIn2025(arg.nodes))
CallForkedRepos == Called("countForkedRepos", countForkedRepos(arg.nodes))
CallLanguages ==
    Called("aggregateLanguages", aggregateLanguages(arg.commitContributionsByRepository))
CallStarsReceived == Called("calculateStarsReceived", calculateStarsReceived(arg.nodes))

\* getTopRepos sorts the array it is given: the array of the response is
\* left in the sorted order
CallTopRepos ==
    /\ out' = <<[fn |-> "getTopRepos", before |-> arg,
                 result |-> <<getTopRepos(arg.commitContributionsByRepository)>>]>>
    /\ arg' = [arg EXCEPT !.commitContributionsByRepository = SortedByCommits(@)]
    /\ UNCHANGED <<store, now, call>>

AggregatorNext ==
    \/ CallLongestStreak
    \/ CallReposCreated
    \/ CallForkedRepos
    \/ CallLanguages
    \/ CallStarsReceived
    \/ CallTopRepos
SpecAggregators == AggregatorInit /\ [][AggregatorNext]_vars

\* fetchFirstAndLastCommits: the query rejects, or answers with up to two
\* repositories, each without default branch or with up to two commits made
\* on one of MaxDays days, with a message of one line, of two lines, or
\* beginning with a line break
CommitMessages == {<<"a">>, <<"b", Newline, "c">>, <<Newline, "a">>}
CommitNode(name, committedDate, message) ==
    [committedDate |-> committedDate, message |-> message,
     url |-> <<"u", name, committedDate>>,
     repository |-> [name |-> name, owner |-> [login |-> "o"]]]
CommitRepo(name, defaultBranchRef) ==
    [repository |-> [name |-> name, owner |-> [login |-> "o"],
                     defaultBranchRef |-> defaultBranchRef]]
Histories(name) ==
    LET commits == {CommitNode(name, d, m) : d \in 1..MaxDays, m \in CommitMessages}
    IN  {Null} \cup {Some(nodes) : nodes \in UNION {[1..n -> commits] : n \in 0..2}}
CommitResponses ==
    {<<>>} \cup {<<CommitRepo("r", h)>> : h \in Histories("r")}
    \cup {<<CommitRepo("r", h), CommitRepo("s", g)>> :
              h \in Histories("r"), g \in Histories("s")}
CommitInputs == {Null} \cup {Some(response) : response \in CommitResponses}
CommitInit == PureInit(CommitInputs)
CommitNext == Apply(fetchFirstAndLastCommits(arg))
SpecCommits == CommitInit /\ [][CommitNext]_vars

(* The specification of a refresh with the two queries of                   *)
(* fetchGitHubMetrics as two steps: calls for "Ab", one at a time           *)

\* the answers of COMMITS_QUERY: no repository, a repository without default
\* branch, and a repository with two commits
RefreshAnswers ==
    {<<>>, <<CommitRepo("r", Null)>>,
     <<CommitRepo("r", Some(<<CommitNode("r", 2, <<"b", Newline, "c">>),
                              CommitNode("r", 1, <<"a">>)>>))>>}

RefreshStep(c) ==
    \/ \E fn \in {"lookupUser", "getOrFetchUser"} : Start(c, fn, <<"A", "b">>)
    \/ Read(c)
    \/ \E answer \in {"ok", "error"}, e \in ConcErrors : Probe(c, answer, e)
    \/ \E response \in Payloads : FetchMain(c, response)
    \/ \E e \in ConcErrors : FetchFails(c, e)
    \/ \E answer \in RefreshAnswers : CommitsAnswer(c, answer)
    \/ \E e \in ErrorMessages : CommitsFail(c, e)
    \/ UpsertBegin(c)
    \/ Write(c)
    \/ \E e \in ConcErrors : UpsertFails(c, e)
    \/ Fallback(c)
    \/ Return(c)

RefreshNext ==
    \/ RefreshStep(1)
    \/ Tick

SpecRefresh == Init /\ [][RefreshNext]_vars

\* The two functions beside each other: lookupUser in slot 1 and
\* getOrFetchUser in slot 2 are called with the same input on the same store
\* at the same time, and the database and the API do to both what arg says:
\* the reads answer or reject, the probe answers or throws, the fetch
\* resolves or rejects, the upsert is applied or rejects. Upserts and the
\* clock run before the calls; a call writes when both have read.
Outcomes == {[ok |-> TRUE, error |-> {}]} \cup {[ok |-> FALSE, error |-> e] : e \in ConcErrors}
TwinScripts ==
    [raw : {<<"A", "b">>, <<" ", "a", "b", " ">>, <<"-", "a">>},
     db : Outcomes,
     probe : {[answer |-> "ok", error |-> {}]} \cup
             {[answer |-> "error", error |-> e] :
                 e \in ConcErrors \cup {{"Could not resolve to a User"}}},
     fetch : {[response |-> Some(PayloadOf(2)), error |-> {}]} \cup
             {[response |-> Null, error |-> e] : e \in ConcErrors},
     upsert : Outcomes]
TwinInit == PureInit(TwinScripts)

TwinStep(c) ==
    \/ Start(c, IF c = 1 THEN "lookupUser" ELSE "getOrFetchUser", arg.raw)
    \/ arg.db.ok /\ Read(c)
    \/ ~arg.db.ok /\ ReadFails(c, arg.db.error)
    \/ Probe(c, arg.probe.answer, arg.probe.error)
    \/ arg.fetch.response # Null /\ Fetch(c, The(arg.fetch.response))
    \/ arg.fetch.response = Null /\ FetchFails(c, arg.fetch.error)
    \/ arg.upsert.ok /\ UpsertBegin(c)
    \/ /\ arg.upsert.ok
       /\ \A o \in Slots : call[o].pc \notin {"idle", "read"}
       /\ Write(c)
    \/ ~arg.upsert.ok /\ UpsertFails(c, arg.upsert.error)
    \/ arg.db.ok /\ Fallback(c)
    \/ ~arg.db.ok /\ FallbackFails(c, arg.db.error)

TwinNext ==
    \/ \E c \in Slots : TwinStep(c)
    \/ /\ \A c \in Slots : call[c].pc = "idle"
       /\ UpsertUserCall(<<"A", "b">>, BuildMetrics(PayloadOf(0)))
    \/ /\ \A c \in Slots : call[c].pc = "idle"
       /\ Tick

SpecTwin == TwinInit /\ [][TwinNext]_vars

\* The step navigation: arg is the pathname, the sequence of its segments
\* (<<>> is "/"), out the last event with the step the page was on.
STEPS ==
    <<"first-commit", "total-commits", "top-repositories", "streak", "languages",
      "community", "summary">>

\* STEPS.findIndex((step) => step.slug === currentSlug), counted from 0
FindIndex(currentSlug) ==
    IF \E i \in 1..Len(STEPS) : STEPS[i] = currentSlug
    THEN (CHOOSE i \in 1..Len(STEPS) :
             /\ STEPS[i] = currentSlug
             /\ \A j \in 1..(i - 1) : STEPS[j] # currentSlug) - 1
    ELSE -1

\* pathname.split("/").pop()
CurrentSlug(pathname) == IF pathname = <<>> THEN "" ELSE pathname[Len(pathname)]

\* StepsLayout, lines 38-40
CurrentStep(pathname) ==
    LET currentStepIndex == FindIndex(CurrentSlug(pathname)) IN
    IF currentStepIndex = -1 THEN 1 ELSE currentStepIndex + 1

\* the user the layout of the steps passes: the record of the pathname's
\* username, which the store keeps in lowercase
UserOf(pathname) == [username |-> ToLowerCase(pathname[2])]

\* handleStepChange: the path pushed to the router, if any
handleStepChange(user, step) ==
    IF step \in 1..Len(STEPS) THEN Some(<<"retrospective", user.username, STEPS[step]>>)
    ELSE Null

\* handleComplete pushes "/"
handleComplete == Some(<<>>)

isLastStep(currentStep) == currentStep = Len(STEPS)

handleBack(user, currentStep) ==
    IF currentStep > 1 THEN handleStepChange(user, currentStep - 1) ELSE Null

handleNext(user, currentStep) ==
    IF ~isLastStep(currentStep) THEN handleStepChange(user, currentStep + 1)
    ELSE handleComplete

\* handleClick navigating to every step but the current one
handleClickAnyStep(user, step, currentStep) ==
    IF step # currentStep THEN handleStepChange(user, step) ELSE Null

\* handleClick of the indicator of `step`
handleClick(user, step, currentStep) ==
    IF step # currentStep /\ step < currentStep THEN handleStepChange(user, step)
    ELSE Null

\* the pathnames the browser is sent to: the home page, and for three
\* usernames the seven steps and a slug that is no step
StepUsernames == {<<"A", "b">>, <<"a", "b">>, <<"7">>}
Pathnames ==
    {<<>>} \cup {<<"retrospective", u, slug>> :
                    u \in StepUsernames,
                    slug \in {STEPS[i] : i \in 1..Len(STEPS)} \cup {"raw"}}

\* StepsLayout is rendered: the pathname is one of a retrospective
Mounted == Len(arg) = 3

\* a handler ran on a click: router.push(target) when it pushed
Clicked(event, step, target) ==
    /\ out' = <<[event |-> event, step |-> step, from |-> CurrentStep(arg)]>>
    /\ arg' = IF target = Null THEN arg ELSE The(target)
    /\ UNCHANGED <<store, now, call>>

\* the Back button, rendered on every step but the first and the last
ClickBack ==
    /\ Mounted
    /\ ~isLastStep(CurrentStep(arg)) /\ CurrentStep(arg) # 1
    /\ Clicked("back", 0, handleBack(UserOf(arg), CurrentStep(arg)))

\* the Next button, rendered on every step but the last
ClickNext ==
    /\ Mounted
    /\ ~isLastStep(CurrentStep(arg))
    /\ Clicked("next", 0, handleNext(UserOf(arg), CurrentStep(arg)))

\* the indicator of a step
ClickIndicator(step) ==
    /\ Mounted
    /\ Clicked("indicator", step, handleClick(UserOf(arg), step, CurrentStep(arg)))

\* the browser is sent to a pathname
Visit(pathname) ==
    /\ out' = <<[event |-> "visit", step |-> 0, from |-> CurrentStep(arg)]>>
    /\ arg' = pathname
    /\ UNCHANGED <<store, now, call>>

StepsInit == PureInit(Pathnames)
StepsNext ==
    \/ ClickBack
    \/ ClickNext
    \/ \E step \in 1..Len(STEPS) : ClickIndicator(step)
    \/ \E pathname \in Pathnames : Visit(pathname)
SpecSteps == StepsInit /\ [][StepsNext]_vars

\* getAverageStats: every collection of up to MaxUsers records, named "a",
\* "aa", ..., each with the metrics of one of three years, with or without
\* the calendar
StatMetrics ==
    LET years == {PayloadOf(n) : n \in SampleCommits \cup {5}} IN
    {BuildMetrics(r) : r \in years} \cup
    {[BuildMetrics(r) EXCEPT !.contributionCalendar = Some(r.weeks)] : r \in years}
AverageInputs ==
    UNION {{[i \in 1..k |-> [username |-> Fill(i), fetchedAt |-> 0, metrics |-> f[i]]] :
               f \in [1..k -> StatMetrics]} : k \in 0..MaxUsers}
AverageInit == PureInit(AverageInputs)
AverageNext == Apply(getAverageStats(arg))
SpecAverage == AverageInit /\ [][AverageNext]_vars

\* the validation: every string of up to MaxLen characters, and long strings
\* around the 39 characters the expression allows: a run of "a" with at most
\* one character before and after it
FormatInputs ==
    Strings(MaxLen) \cup
    {h \o Fill(n) \o t : h \in Strings(1), t \in Strings(1),
                         n \in (MaxRepeat - 1)..(MaxRepeat + 2)}
FormatInit == PureInit(FormatInputs)
FormatNext == Apply(Validate(arg))
SpecFormat == FormatInit /\ [][FormatNext]_vars

-----------------------------------------------------------------------------
(* What the claims speak of *)

\* the records the store holds under the key `key`
Held(coll, key) == {coll[i] : i \in {j \in 1..Len(coll) : coll[j].username = key}}

\* call c ends in this step
Ends(c) == call[c].pc # "done" /\ call'[c].pc = "done"

\* in this step the first getUserByUsername of call c answers
ReadAnswers(c) ==
    call[c].pc = "read" /\ call'[c].pc # "read" /\ call'[c].failedAt # "read"

\* the call made no external call and wrote nothing
NoExternalCall(k) == k.probes = 0 /\ k.fetches = 0 /\ k.upserts = 0

\* how lookupUser classifies the message of an error
AuthError(e) == "Bad credentials" \in e \/ "401" \in e
RateLimitError(e) == "rate limit" \in e

\* the input is blank: nothing but whitespace
Blank(raw) == \A i \in 1..Len(raw) : raw[i] = Space

\* the input without its surrounding whitespace
Core(raw) ==
    LET inked == {i \in 1..Len(raw) : raw[i] # Space} IN
    IF inked = {} THEN <<>>
    ELSE SubSeq(raw, CHOOSE i \in inked : \A j \in inked : i <= j,
                     CHOOSE i \in inked : \A j \in inked : i >= j)

\* two inputs differ only in letter case or surrounding whitespace
SameModuloCaseAndSpace(raw1, raw2) ==
    LET a == Core(raw1)
        b == Core(raw2)
    IN  Len(a) = Len(b) /\ \A i \in 1..Len(a) : LowerChar(a[i]) = LowerChar(b[i])

\* the store key the code computes for an input: trimmed and lowercased by
\* the entry point, lowercased again by getUserByUsername and upsertUser
KeyOf(raw) == ToLowerCase(Normalize(raw))

\* in this step the updateOne of call c is applied
Writes(c) == call[c].pc = "write" /\ Ends(c) /\ call'[c].upserts = 1

\* the username grammar: 1 to 39 characters, each a letter, a digit or a
\* hyphen, no hyphen first or last, no two hyphens in a row
WellFormed(s) ==
    /\ Len(s) >= 1 /\ Len(s) <= 39
    /\ \A i \in 1..Len(s) : s[i] \in LowerLetters \cup UpperLetters \cup Digits \cup {Hyphen}
    /\ s[1] # Hyphen /\ s[Len(s)] # Hyphen
    /\ \A i \in 1..(Len(s) - 1) : ~(s[i] = Hyphen /\ s[i + 1] = Hyphen)

-----------------------------------------------------------------------------
(* C1: when the read of lookupUser or getOrFetchUser finds a record of the  *)
(* normalized username for which isDataFresh holds, the call ends at once,  *)
(* returns exactly that record as a success, and has made no existence      *)
(* probe, no metrics fetch and no upsert; the store is as it was.           *)
C1_CacheHit ==
    [][\A c \in Slots : \A user \in Held(store, Normalize(call[c].raw)) :
          (ReadAnswers(c) /\ isDataFresh(user, now))
          => /\ call'[c].pc = "done"
             /\ call'[c].result.kind = (IF call[c].fn = "lookupUser" THEN "success"
                                        ELSE "user")
             /\ call'[c].result.user = Some(user)
             /\ NoExternalCall(call'[c])
             /\ store' = store]_vars

\* a call has ended in a cache hit
C1_Witness ==
    \E c \in Slots :
        /\ call[c].pc = "done"
        /\ call[c].result.kind \in {"success", "user"}
        /\ call[c].reads = 1 /\ call[c].failedAt = "none"
        /\ NoExternalCall(call[c])

-----------------------------------------------------------------------------
(* C2: isDataFresh(record) is true if and only if now - record.fetchedAt is *)
(* strictly less than 3 days and record.metrics.contributionCalendar is     *)
(* defined.                                                                 *)
C2_FreshIff ==
    out # <<>> =>
        (The(out) <=> /\ arg.clock - arg.user.fetchedAt < 3 * 24 * 60 * 60 * 1000
                      /\ arg.user.metrics.contributionCalendar # Undefined)

\* a schema-complete record aged exactly 3 days has been found stale
C2_Witness ==
    /\ out = <<FALSE>>
    /\ arg.clock - arg.user.fetchedAt = 3 * 24 * 60 * 60 * 1000
    /\ arg.user.metrics.contributionCalendar # Undefined

-----------------------------------------------------------------------------
(* C3: in lookupUser, when the store holds a (stale) record of the username *)
(* and the existence probe or the metrics fetch fails with an               *)
(* authentication or a rate-limit error, the call returns success with that *)
(* record.                                                                  *)
C3_StaleOnAuthOrRateLimit ==
    [][\A c \in Slots : \A user \in Held(store, Normalize(call[c].raw)) :
          (/\ call[c].fn = "lookupUser"
           /\ call[c].pc \in {"probe", "fetch"}
           /\ Ends(c)
           /\ call'[c].failedAt \in {"probe", "fetch"}
           /\ AuthError(call'[c].error) \/ RateLimitError(call'[c].error)
           /\ ~isDataFresh(user, now))
          => call'[c].result = Success(user)]_vars

-----------------------------------------------------------------------------
-----------------------------------------------------------------------------
(* C5: lookupUser fails with 'GitHub user not found' if and only if the     *)
(* probe's query failed with a message containing 'Could not resolve to a   *)
(* User'; then no metrics fetch and no upsert were made; any other error of *)
(* the probe is thrown on by checkUserExists, caught as the error of the    *)
(* probe, and not reported as 'GitHub user not found'.                      *)
C5_NotFoundIffSignal ==
    \A c \in Slots :
        (call[c].fn = "lookupUser" /\ call[c].pc = "done") =>
            LET k == call[c]
                signal == /\ k.probeAnswer = "error"
                          /\ "Could not resolve to a User" \in k.probeError
                notFound == k.result.kind = "failure" /\ k.result.error = MsgNotFound
            IN  /\ notFound <=> signal
                /\ signal => k.fetches = 0 /\ k.upserts = 0
                /\ (k.probeAnswer = "error" /\ ~signal) =>
                       k.failedAt = "probe" /\ k.error = k.probeError

\* a lookupUser has ended in 'GitHub user not found'
C5_Witness ==
    \E c \in Slots :
        /\ call[c].fn = "lookupUser" /\ call[c].pc = "done"
        /\ call[c].result = Failure(MsgNotFound)

-----------------------------------------------------------------------------
(* C6: after a refresh (probe, metrics fetch and upsert succeeded) the      *)
(* stored record has metrics.contributionCalendar defined, so that          *)
(* isDataFresh accepts it while it is younger than 3 days.                  *)
C6_RefreshStoresCalendar ==
    [][\A c \in Slots :
          (call[c].pc = "write" /\ Ends(c) /\ call'[c].upserts = 1)
          => \E user \in Held(store', Normalize(call[c].raw)) :
                /\ user.metrics.contributionCalendar # Undefined
                /\ now' - user.fetchedAt < CACHE_DURATION_MS => isDataFresh(user, now')]_vars

-----------------------------------------------------------------------------
(* C7: a call whose input is blank ended with 'Username is required'        *)
(* (getOrFetchUser: null), a call whose input is not blank and, trimmed and *)
(* lowercased, violates the username grammar ended with 'Invalid GitHub     *)
(* username format' (getOrFetchUser: null); neither read the store, probed, *)
(* fetched or upserted.                                                     *)
C7_ValidationFailsWithoutIO ==
    \A c \in Slots :
        call[c].pc = "done" =>
            LET k == call[c]
                rejected(message) ==
                    /\ k.result = (IF k.fn = "lookupUser" THEN Failure(message)
                                   ELSE NullResult)
                    /\ k.reads = 0 /\ NoExternalCall(k)
            IN  /\ Blank(k.raw) => rejected(MsgEmpty)
                /\ (~Blank(k.raw) /\ ~WellFormed(ToLowerCase(Core(k.raw))))
                       => rejected(MsgInvalid)

\* a lookupUser of a blank input has ended
C7_Witness ==
    \E c \in Slots :
        /\ call[c].fn = "lookupUser" /\ call[c].pc = "done"
        /\ call[c].raw = <<" ">>
        /\ call[c].result = Failure(MsgEmpty)

-----------------------------------------------------------------------------
-----------------------------------------------------------------------------
(* C9: a call reads and writes the store key of every input that differs    *)
(* from its own only in letter case or surrounding whitespace: the record   *)
(* its read or its fallback read returns is the one held under that key,    *)
(* its upsert leaves exactly its record under that key and every other key  *)
(* as it was; and every username in the store is lowercase.                 *)
C9_SameKey ==
    /\ [](\A i \in 1..Len(store) : \A j \in 1..Len(store[i].username) :
             store[i].username[j] \notin UpperLetters)
    /\ [][\A c \in Slots : \A raw2 \in RawInputs :
             (call'[c] # call[c] /\ SameModuloCaseAndSpace(call[c].raw, raw2)) =>
                 LET key == KeyOf(raw2) IN
                 /\ (ReadAnswers(c) /\ call'[c].pc = "done")
                        => The(call'[c].result.user) \in Held(store, key)
                 /\ (ReadAnswers(c) /\ call'[c].pc # "done" /\ call[c].fn = "getOrFetchUser")
                        => \/ call'[c].cachedUser = Null /\ Held(store, key) = {}
                           \/ call'[c].cachedUser # Null
                              /\ The(call'[c].cachedUser) \in Held(store, key)
                 /\ (call[c].pc = "fallback" /\ Ends(c) /\ call'[c].result.kind = "success")
                        => The(call'[c].result.user) \in Held(store, key)
                 /\ Writes(c)
                        => /\ Held(store', key) = {The(call'[c].result.user)}
                           /\ \A i \in 1..Len(store) :
                                 store[i].username # key => store'[i] = store[i]]_vars

\* lookupUser(" ab ") has returned a record stored as "ab" next to another one
C9_Witness ==
    \E c \in Slots :
        /\ call[c].fn = "lookupUser" /\ call[c].pc = "done"
        /\ call[c].raw = <<" ", "a", "b", " ">>
        /\ call[c].result.kind = "success"
        /\ The(call[c].result.user).username = <<"a", "b">>
        /\ Held(store, <<"a", "b">>) = {The(call[c].result.user)}
        /\ Len(store) = 2

-----------------------------------------------------------------------------
(* C10: right after upsertUser(u, m), whatever the store held,              *)
(* getUserByUsername(u) returns a record, its metrics are equal to m        *)
(* (nothing of the metrics stored before is left) and its username is u in  *)
(* lowercase.                                                               *)
RoundTrip(u, m) ==
    LET user == getUserByUsername(store', u) IN
    /\ user # Null
    /\ The(user).metrics = m
    /\ The(user).username = [i \in 1..Len(u) |-> LowerChar(u[i])]

C10_UpsertThenGet ==
    [][\A d \in StoreUpserts : UpsertUserCall(d[1], d[2]) => RoundTrip(d[1], d[2])]_vars

\* the record of "ab", the first of three, has been written over by an upsert
\* of metrics without a calendar
C10_Witness ==
    /\ Len(store) = 3
    /\ store[1].username = <<"a", "b">>
    /\ store[1].fetchedAt = now /\ now > 0
    /\ store[1].metrics.contributionCalendar = Undefined

-----------------------------------------------------------------------------
(* C11: upsertUser(u, m) changes only the record keyed lowercase(u): the    *)
(* records of every other username are the same, in the same order, before  *)
(* and after; the number of records is the same when a record of            *)
(* lowercase(u) existed and one more when none did.                         *)
OtherRecords(coll, key) == SelectSeq(coll, LAMBDA r : r.username # key)

C11_UpsertFrame ==
    [][\A d \in StoreUpserts :
          UpsertUserCall(d[1], d[2]) =>
              LET key == ToLowerCase(d[1]) IN
              /\ OtherRecords(store', key) = OtherRecords(store, key)
              /\ Len(store') = Len(store) + (IF Held(store, key) = {} THEN 1 ELSE 0)]_vars

\* of three records, the second was written again after the third was created,
\* and the first has not been touched since
C11_Witness ==
    /\ Len(store) = 3
    /\ store[1].fetchedAt < store[3].fetchedAt
    /\ store[3].fetchedAt < store[2].fetchedAt

-----------------------------------------------------------------------------
(* C12: in every reachable state, whatever the interleaving of the steps of *)
(* concurrent lookupUser, getOrFetchUser and upsertUser calls, no two       *)
(* records of the collection have the same username up to letter case.      *)
C12_OneRecordPerUsername ==
    \A i, j \in 1..Len(store) :
        ToLowerCase(store[i].username) = ToLowerCase(store[j].username) => i = j

\* two concurrent calls and a direct upsert have all written the key "ab",
\* beside the record of "7"
C12_Witness ==
    /\ \A c \in Slots : call[c].pc = "done" /\ call[c].upserts = 1
    /\ Len(store) = 2
    /\ \E i \in 1..Len(store) :
          /\ store[i].username = <<"a", "b">>
          /\ store[i].metrics.contributionCalendar # Undefined

-----------------------------------------------------------------------------
(* C13: two concurrent lookupUser calls of one username are neither         *)
(* serialized nor de-duplicated: a call whose read finds no fresh record    *)
(* goes on to its own probe whatever the other call is doing, and every     *)
(* upsert, whatever the other call has written, leaves in the store exactly *)
(* the record it wrote, so the record left is the one of the upsert applied *)
(* last.                                                                    *)
C13_LastWriterWins ==
    [][\A c \in Slots :
          call[c].fn = "lookupUser" =>
              LET key == Normalize(call[c].raw)
                  held == Held(store, key)
              IN  /\ (ReadAnswers(c) /\ \A user \in held : ~isDataFresh(user, now))
                         => call'[c].pc = "probe"
                  /\ Writes(c)
                         => Held(store', key) =
                               {[username |-> key, fetchedAt |-> call[c].at,
                                 metrics |-> The(call[c].metrics)]}]_vars

\* two lookupUser calls of one username have both probed, fetched and written;
\* the record in the store is the one of the call that wrote last, though the
\* other call returned a record with a later fetchedAt
C13_Witness ==
    \E c, o \in Slots :
        /\ c # o
        /\ \A x \in {c, o} :
              /\ call[x].fn = "lookupUser" /\ call[x].pc = "done"
              /\ call[x].probes = 1 /\ call[x].fetches = 1 /\ call[x].upserts = 1
        /\ Held(store, <<"a", "b">>) = {The(call[c].result.user)}
        /\ The(call[o].result.user).fetchedAt > The(call[c].result.user).fetchedAt

-----------------------------------------------------------------------------
(* C14: no step removes a record from the store; a step of a lookupUser or  *)
(* getOrFetchUser call changes the store only when it applies the call's    *)
(* upsert, which comes after the call's metrics fetch succeeded and adds no *)
(* key but the call's username; so a call that ends in a validation         *)
(* failure, a cache hit, UserNotFound, a served stale record or an error    *)
(* has written nothing.                                                     *)
Keys(coll) == {coll[i].username : i \in 1..Len(coll)}

C14_StoreOnlyGrowsByRefresh ==
    [][/\ Keys(store) \subseteq Keys(store')
       /\ Len(store') >= Len(store)
       /\ \A c \in Slots :
             call'[c] # call[c] =>
                 IF Writes(c)
                 THEN /\ call[c].fetches = 1 /\ call[c].metrics # Null
                      /\ call'[c].result.kind \in {"success", "user"}
                      /\ Keys(store') = Keys(store) \cup {Normalize(call[c].raw)}
                 ELSE /\ store' = store
                      /\ Ends(c) => call'[c].upserts = 0]_vars

\* a lookupUser whose metrics fetch failed has served the stale record of the
\* store and written nothing
C14_Witness ==
    \E c \in Slots :
        /\ call[c].fn = "lookupUser" /\ call[c].pc = "done"
        /\ call[c].failedAt = "fetch" /\ call[c].reads = 2
        /\ call[c].result.kind = "success"
        /\ call[c].upserts = 0
        /\ Len(store) = 2

-----------------------------------------------------------------------------
(* C15: getAverageStats returns, for each of totalCommits, longestStreak,   *)
(* totalPRs, totalIssues and starsReceived, an integer nearest to the mean  *)
(* of the field over all records (at most 1/2 away from it), and userCount  *)
(* equal to the number of records; for the empty collection all six are 0.  *)
StatFields == {"totalCommits", "longestStreak", "totalPRs", "totalIssues", "starsReceived"}

FieldTotal(coll, field) ==
    LET RECURSIVE upTo(_)
        upTo(i) == IF i = 0 THEN 0 ELSE upTo(i - 1) + coll[i].metrics[field]
    IN  upTo(Len(coll))

Distance(a, b) == IF a >= b THEN a - b ELSE b - a

C15_AverageStats ==
    out # <<>> =>
        LET stats == The(out)
            n == Len(arg)
        IN  /\ stats.userCount = n
            /\ \A field \in StatFields :
                  IF n = 0 THEN stats[field] = 0
                  ELSE 2 * Distance(n * stats[field], FieldTotal(arg, field)) <= n

\* over two records the mean of the stars is 2.5 and the answer 3, that of
\* the commits 1 and the answer 1
C15_Witness ==
    /\ Len(arg) = 2
    /\ out # <<>>
    /\ FieldTotal(arg, "starsReceived") = 5 /\ The(out).starsReceived = 3
    /\ FieldTotal(arg, "totalCommits") = 2 /\ The(out).totalCommits = 1
    /\ The(out).userCount = 2

-----------------------------------------------------------------------------
(* C16: calculateLongestStreak(weeks) is the length of the longest run of   *)
(* consecutive days with contributionCount > 0 among the days of the weeks  *)
(* taken in order, runs going on across week boundaries; it is 0 when there *)
(* is no day or no day with a contribution, and N when the days with a      *)
(* contribution are one run of N days.                                      *)
DaysOf(weeks) ==
    LET RECURSIVE upTo(_)
        upTo(w) == IF w = 0 THEN <<>> ELSE upTo(w - 1) \o weeks[w]
    IN  upTo(Len(weeks))

\* the lengths of the runs of days with a contribution
RunLengths(days) ==
    {j - i + 1 : <<i, j>> \in {r \in (1..Len(days)) \X (1..Len(days)) :
                                  r[1] <= r[2] /\ \A k \in r[1]..r[2] : days[k] > 0}}

C16_LongestStreak ==
    out # <<>> =>
        LET days == DaysOf(arg)
            active == {k \in 1..Len(days) : days[k] > 0}
        IN  /\ \A n \in RunLengths(days) : The(out) >= n
            /\ The(out) \in RunLengths(days) \cup {0}
            /\ active = {} => The(out) = 0
            /\ (active # {} /\ \A k \in 1..Len(days) :
                    (\E a \in active : a <= k) /\ (\E a \in active : a >= k) => k \in active)
                   => The(out) = Cardinality(active)

\* one run of three days, from the end of the first week into the second,
\* with a day without contribution before and after it
C16_Witness ==
    /\ out = <<3>>
    /\ Len(arg) = 2
    /\ Len(arg[1]) = 2 /\ arg[1][1] = 0
    /\ Len(arg[2]) = 3 /\ arg[2][3] = 0

-----------------------------------------------------------------------------
(* C17, as claimed: for every language byte map with total bytes > 0 the    *)
(* percentages of aggregateLanguages, before the cap at ten languages, sum  *)
(* to 100.0 within 0.1; for an input without bytes the result is empty.     *)
(* Percentages are counted in tenths of a percent: 100.0 is 1000, 0.1 is 1. *)
EdgesOf(repositories) ==
    LET RECURSIVE upTo(_)
        upTo(r) == IF r = 0 THEN <<>>
                   ELSE upTo(r - 1) \o repositories[r].repository.languages.edges
    IN  upTo(Len(repositories))

\* the languages of the input and the bytes of all of them
LanguagesOf(repositories) ==
    {EdgesOf(repositories)[i].node.name : i \in 1..Len(EdgesOf(repositories))}

TotalBytes(repositories) ==
    LET edges == EdgesOf(repositories)
        RECURSIVE upTo(_)
        upTo(i) == IF i = 0 THEN 0 ELSE upTo(i - 1) + edges[i].size
    IN  upTo(Len(edges))

\* the sum of the percentages of a result, in tenths
PercentageSum(languages) ==
    LET RECURSIVE upTo(_)
        upTo(i) == IF i = 0 THEN 0 ELSE upTo(i - 1) + languages[i].percentage
    IN  upTo(Len(languages))

\* the cap at ten languages removes nothing from the result
Uncapped(repositories) == Cardinality(LanguagesOf(repositories)) <= 10

C17_SumWithinTenth ==
    out # <<>> =>
        /\ TotalBytes(arg) = 0 => The(out) = <<>>
        /\ (TotalBytes(arg) > 0 /\ Uncapped(arg))
               => Distance(PercentageSum(The(out)), 1000) <= 1

(* C17, amended: the sum of the percentages of n languages, before the cap, *)
(* differs from 100.0 by at most n times 0.05, which is within 0.1 for up   *)
(* to three languages; for an input without bytes the result is empty.      *)
C17_SumWithinHalfTenthPerLanguage ==
    out # <<>> =>
        /\ TotalBytes(arg) = 0 => The(out) = <<>>
        /\ (TotalBytes(arg) > 0 /\ Uncapped(arg))
               => /\ Len(The(out)) = Cardinality(LanguagesOf(arg))
                  /\ 2 * Distance(PercentageSum(The(out)), 1000) <= Len(The(out))

\* four languages of 3, 3, 5 and 5 bytes, the last bytes added by a second
\* repository: 18.8 + 18.8 + 31.3 + 31.3 = 100.2
C17_Witness ==
    /\ out # <<>>
    /\ Len(arg) = 2
    /\ Len(The(out)) = 4
    /\ PercentageSum(The(out)) = 1002

-----------------------------------------------------------------------------
(* C18: getTopRepos returns min(5, n) entries for n repositories, in        *)
(* non-increasing order of commits; each entry is made from a repository of *)
(* the input of its own, with additions and deletions 0, and every          *)
(* repository left out has at most as many commits as every entry; seven    *)
(* repositories with distinct counts yield the five largest, descending.    *)
C18_TopRepos ==
    out # <<>> =>
        LET top == The(out)
            n == Len(arg)
            \* the places in the input of the repositories returned
            places == {i \in 1..n : \E t \in 1..Len(top) :
                                        top[t].name = arg[i].repository.name}
        IN  /\ Len(top) = (IF n < 5 THEN n ELSE 5)
            /\ \A t \in 1..(Len(top) - 1) : top[t].commits >= top[t + 1].commits
            /\ \A t, u \in 1..Len(top) : top[t].name = top[u].name => t = u
            /\ \A t \in 1..Len(top) :
                  /\ top[t].additions = 0 /\ top[t].deletions = 0
                  /\ \E i \in 1..n :
                        /\ top[t].name = arg[i].repository.name
                        /\ top[t].owner = arg[i].repository.owner.login
                        /\ top[t].url = arg[i].repository.url
                        /\ top[t].commits = arg[i].contributions.totalCount
            /\ \A i \in (1..n) \ places : \A t \in 1..Len(top) :
                  arg[i].contributions.totalCount <= top[t].commits

\* of seven repositories with 1 to 7 commits, the one with most commits last
\* in the list, the five with 7, 6, 5, 4 and 3 commits have been returned
C18_Witness ==
    /\ out # <<>>
    /\ Len(arg) = 7
    /\ arg[7].contributions.totalCount = 7
    /\ arg[1].contributions.totalCount = 2
    /\ [t \in 1..5 |-> The(out)[t].commits] = <<7, 6, 5, 4, 3>>

-----------------------------------------------------------------------------
(* C19: every call of lookupUser ends by returning {success: true, user} or *)
(* {success: false, error} with one of the six user-facing messages, and    *)
(* never by throwing, also when a store read or the upsert fails.           *)
UserFacingMessages ==
    {MsgEmpty, MsgInvalid, MsgNotFound, MsgAuth, MsgRateLimit, MsgFetchFailed}

C19_LookupNeverThrows ==
    \A c \in Slots :
        (call[c].fn = "lookupUser" /\ call[c].pc = "done") =>
            \/ call[c].result.kind = "success" /\ call[c].result.user # Null
            \/ call[c].result.kind = "failure"
               /\ call[c].result.error \in UserFacingMessages

-----------------------------------------------------------------------------
(* C20: in every call the steps come in the order store read, existence     *)
(* probe, metrics fetch, upsert: the probe is made after the read answered, *)
(* the metrics fetch only after the probe of the same call found the user   *)
(* to exist, the upsert only after the metrics fetch of the same call       *)
(* resolved; and the record a refresh returns is the one its upsert wrote.  *)
C20_StepOrder ==
    /\ [](\A c \in Slots :
             LET k == call[c] IN
             /\ (k.pc = "probe" \/ k.probes > 0)
                    => k.reads >= 1 /\ k.failedAt # "read"
             /\ (k.pc = "fetch" \/ k.fetches > 0)
                    => k.probes = 1 /\ k.probeAnswer = "ok" /\ k.failedAt # "probe"
             /\ (k.pc \in {"upsert", "write"} \/ k.upserts > 0 \/ k.failedAt = "upsert")
                    => k.fetches = 1 /\ k.failedAt # "fetch"
             /\ k.pc \in {"upsert", "write"} => k.metrics # Null
             /\ k.reads <= 2 /\ k.probes <= 1 /\ k.fetches <= 1 /\ k.upserts <= 1)
    /\ [][\A c \in Slots :
             Writes(c) =>
                 /\ call'[c].result.kind = (IF call[c].fn = "lookupUser" THEN "success"
                                            ELSE "user")
                 /\ The(call'[c].result.user).metrics = The(call[c].metrics)
                 /\ \E i \in 1..Len(store') : store'[i] = The(call'[c].result.user)]_vars

\* a getOrFetchUser has ended in a refresh: one read, one probe, one fetch, one
\* upsert, and the record it returned
C20_Witness ==
    \E c \in Slots :
        /\ call[c].fn = "getOrFetchUser" /\ call[c].pc = "done"
        /\ call[c].reads = 1 /\ call[c].probes = 1
        /\ call[c].fetches = 1 /\ call[c].upserts = 1
        /\ call[c].result.kind = "user"
        /\ The(call[c].result.user).metrics.totalCommits = 2

-----------------------------------------------------------------------------
(* C21: within one call of lookupUser or getOrFetchUser checkUserExists is  *)
(* called at most once and fetchGitHubMetrics at most once; once a call has *)
(* caught an error it makes no further probe, fetch or upsert, and if it    *)
(* still returns a record, that record is one read from the store.          *)
C21_NoRetry ==
    [][\A c \in Slots :
          LET k == call[c]
              k1 == call'[c]
          IN  /\ k1.probes > k.probes => k.probes = 0 /\ k.failedAt = "none"
              /\ k1.fetches > k.fetches => k.fetches = 0 /\ k.failedAt = "none"
              /\ (k.failedAt # "none" /\ k1.pc # "idle")
                     => /\ k1.probes = k.probes /\ k1.fetches = k.fetches
                        /\ k1.upserts = k.upserts
                        /\ k1.pc \in {"fallback", "done"}
              /\ (Ends(c) /\ k1.failedAt # "none" /\ k1.result.user # Null)
                     => /\ k1.upserts = 0
                        /\ \/ k1.result.user = k.cachedUser
                           \/ The(k1.result.user) \in Held(store, k.trimmedUsername)]_vars

\* a getOrFetchUser whose probe failed has returned its cached record, without
\* a second probe and without a fetch
C21_Witness ==
    \E c \in Slots :
        /\ call[c].fn = "getOrFetchUser" /\ call[c].pc = "done"
        /\ call[c].failedAt = "probe"
        /\ call[c].probes = 1 /\ call[c].fetches = 0
        /\ call[c].result.kind = "user"

-----------------------------------------------------------------------------
-----------------------------------------------------------------------------
(* C23: aggregateLanguages counts for each language name the bytes of all   *)
(* its edges in all repositories, gives it round(bytes / total * 1000) / 10 *)
(* percent (halves rounded up), and returns the min(10, n) languages of     *)
(* largest percentage among the n, in non-increasing order of percentage,   *)
(* each name once; nothing when there are no bytes.                         *)
BytesOf(repositories, name) ==
    LET edges == EdgesOf(repositories)
        RECURSIVE upTo(_)
        upTo(i) == IF i = 0 THEN 0
                   ELSE upTo(i - 1) + (IF edges[i].node.name = name THEN edges[i].size
                                       ELSE 0)
    IN  upTo(Len(edges))

\* p tenths of a percent is round(1000 * bytes / total)
IsRounded(p, bytes, total) ==
    2 * total * p <= 2000 * bytes + total /\ 2000 * bytes + total < 2 * total * (p + 1)

C23_AggregateLanguages ==
    out # <<>> =>
        LET languages == The(out)
            total == TotalBytes(arg)
            names == LanguagesOf(arg)
            returned == {languages[i].name : i \in 1..Len(languages)}
        IN  IF total = 0 THEN languages = <<>>
            ELSE /\ Len(languages) = (IF Cardinality(names) < 10 THEN Cardinality(names)
                                      ELSE 10)
                 /\ \A i, j \in 1..Len(languages) :
                       languages[i].name = languages[j].name => i = j
                 /\ \A i \in 1..(Len(languages) - 1) :
                       languages[i].percentage >= languages[i + 1].percentage
                 /\ \A i \in 1..Len(languages) :
                       /\ languages[i].name \in names
                       /\ IsRounded(languages[i].percentage,
                                    BytesOf(arg, languages[i].name), total)
                 /\ \A name \in names \ returned : \A i \in 1..Len(languages) :
                       \A p \in 0..1000 :
                           IsRounded(p, BytesOf(arg, name), total)
                               => p <= languages[i].percentage

\* C has 3 bytes in one repository and 5 in another, Go 3 bytes: C is given
\* 72.7 percent and Go 27.3
C23_Witness ==
    /\ Len(arg) = 2
    /\ BytesOf(<<arg[1]>>, "C") = 3 /\ BytesOf(<<arg[2]>>, "C") = 5
    /\ out = <<(<<[name |-> "C", percentage |-> 727],
                  [name |-> "Go", percentage |-> 273]>>)>>

-----------------------------------------------------------------------------
(* C24: the aggregator functions have no side effect: a call leaves the     *)
(* response it was given as it was, the order of the array                  *)
(* commitContributionsByRepository included, and a second call of the same  *)
(* function on the same response returns the same value.                    *)
C24_NoSideEffects ==
    [][/\ arg' = arg
       /\ (/\ out # <<>>
           /\ The(out').fn = The(out).fn
           /\ The(out').before = The(out).before)
              => The(out').result = The(out).result]_vars

-----------------------------------------------------------------------------
(* C25: when the query answers, fetchFirstAndLastCommits returns            *)
(* {null, null} if no repository has a commit node in the history of its    *)
(* default branch; otherwise first is made from a commit of the least       *)
(* committedDate and last from a commit of the greatest, over the nodes of  *)
(* all repositories: both are null or both are not, first.date <= last.date,*)
(* and each message is the first line of the commit's message.              *)
NodesOf(response) ==
    UNION {{The(response[i].repository.defaultBranchRef)[j] :
               j \in 1..Len(The(response[i].repository.defaultBranchRef))} :
           i \in {i \in 1..Len(response) :
                      response[i].repository.defaultBranchRef # Null}}

\* line is message up to its first line break
IsFirstLineOf(line, message) ==
    /\ Len(line) <= Len(message)
    /\ \A i \in 1..Len(line) : line[i] = message[i] /\ line[i] # Newline
    /\ Len(line) < Len(message) => message[Len(line) + 1] = Newline

\* info is the CommitInfo of some node of date committedDate
MadeFrom(info, nodes, committedDate) ==
    \E node \in nodes :
        /\ node.committedDate = committedDate
        /\ info.date = committedDate
        /\ info.repo = <<node.repository.owner.login, "/", node.repository.name>>
        /\ info.url = node.url
        /\ IsFirstLineOf(info.message, node.message)

C25_FirstAndLastCommits ==
    (out # <<>> /\ arg # Null) =>
        LET nodes == NodesOf(The(arg))
            first == The(out).first
            last == The(out).last
        IN  /\ (first = Null) <=> (last = Null)
            /\ (first = Null) <=> (nodes = {})
            /\ first # Null =>
                  /\ \A node \in nodes :
                        /\ The(first).date <= node.committedDate
                        /\ node.committedDate <= The(last).date
                  /\ MadeFrom(The(first), nodes, The(first).date)
                  /\ MadeFrom(The(last), nodes, The(last).date)
                  /\ The(first).date <= The(last).date

\* two repositories, the later commit in the first of them, with a message
\* of two lines
C25_Witness ==
    /\ out # <<>> /\ arg # Null
    /\ Len(The(arg)) = 2
    /\ The(out).first # Null
    /\ The(The(out).first).date = 1 /\ The(The(out).first).repo = <<"o", "/", "s">>
    /\ The(The(out).last).date = 2 /\ The(The(out).last).repo = <<"o", "/", "r">>
    /\ The(The(out).last).message = <<"b">>
    /\ \E node \in NodesOf(The(arg)) : node.message = <<"b", Newline, "c">>

-----------------------------------------------------------------------------
(* C26: when the commits sub-query fails, fetchGitHubMetrics still resolves:*)
(* its metrics have firstCommit and lastCommit null and every other field   *)
(* computed from the answer of the main query, no error is caught by the    *)
(* caller, and the caller goes on to upsertUser, which stores these metrics.*)
C26_CommitsFailureDegrades ==
    [][\A c \in Slots :
        LET k == call[c]
            k1 == call'[c]
        IN  /\ (k.pc = "commits" /\ k1.commits = "failed") =>
                  /\ k1.pc = "upsert" /\ k1.failedAt = "none"
                  /\ k1.metrics # Null
                  /\ LET metrics == The(k1.metrics)
                         response == The(k.response)
                     IN  /\ metrics.firstCommit = Null /\ metrics.lastCommit = Null
                         /\ metrics.totalCommits = response.totalCommitContributions
                         /\ metrics.totalPRs = response.totalPullRequestContributions
                         /\ metrics.totalIssues = response.totalIssueContributions
                         /\ metrics.longestStreak = calculateLongestStreak(response.weeks)
                         /\ metrics.starsReceived
                               = calculateStarsReceived(response.repositories)
            /\ (k.pc = "write" /\ k.commits = "failed" /\ k1.upserts > k.upserts) =>
                  \E record \in Held(store', k.trimmedUsername) :
                      /\ record.metrics = The(k.metrics)
                      /\ record.metrics.firstCommit = Null
                      /\ record.metrics.lastCommit = Null]_vars

\* a lookup whose sub-query failed has stored and returned the year of two
\* commits without first and last commit
C26_Witness ==
    /\ call[1].pc = "done" /\ call[1].commits = "failed" /\ call[1].upserts = 1
    /\ call[1].result.kind = "success"
    /\ The(call[1].result.user).metrics.totalCommits = 2
    /\ The(call[1].result.user).metrics.firstCommit = Null
    /\ The(call[1].result.user) \in Held(store, call[1].trimmedUsername)

-----------------------------------------------------------------------------
(* C27: under every interleaving of concurrent calls, each record of the    *)
(* store has the fetchedAt and the metrics that one upsertUser call wrote   *)
(* together: a step leaves a record as it was or sets its fetchedAt and its *)
(* metrics to the date and the metrics of the one upsert applied in that    *)
(* step; and every record a call reads or returns is a record as it is, or  *)
(* was when the call read it, in the store.                                 *)
Records(coll) == {coll[i] : i \in 1..Len(coll)}

C27_WrittenTogether ==
    [][/\ \A i \in 1..Len(store') :
             \/ i <= Len(store) /\ store'[i] = store[i]
             \/ \E c \in Slots :
                   /\ Writes(c)
                   /\ store'[i].username = ToLowerCase(call[c].trimmedUsername)
                   /\ store'[i].fetchedAt = call[c].at
                   /\ store'[i].metrics = The(call[c].metrics)
             \/ /\ call' = call
                /\ \E d \in DirectUpserts :
                      /\ store'[i].username = ToLowerCase(d[1])
                      /\ store'[i].fetchedAt = now
                      /\ store'[i].metrics = d[2]
       /\ \A c \in Slots :
             /\ (call'[c].cachedUser # call[c].cachedUser /\ call'[c].cachedUser # Null)
                   => The(call'[c].cachedUser) \in Records(store)
             /\ (Ends(c) /\ call'[c].result.user # Null)
                   => \/ The(call'[c].result.user) \in Records(store')
                      \/ call'[c].result.user = call[c].cachedUser]_vars

\* two calls have refreshed the same username with different metrics at
\* different dates, and a third record was written beside them: the record
\* of the username is the one of one of the two calls, date and metrics
C27_Witness ==
    /\ \A c \in Slots : call[c].pc = "done" /\ call[c].upserts = 1
    /\ The(call[1].result.user).fetchedAt # The(call[2].result.user).fetchedAt
    /\ The(call[1].result.user).metrics # The(call[2].result.user).metrics
    /\ Len(store) = 2
    /\ \E c \in Slots : Held(store, <<"a", "b">>) = {The(call[c].result.user)}

-----------------------------------------------------------------------------
(* C28: under every interleaving of concurrent refreshes, with a clock that *)
(* never goes back, the fetchedAt of the stored record of a username never  *)
(* decreases.                                                               *)
C28_FetchedAtNeverDecreases ==
    [][\A i \in 1..Len(store) : store'[i].fetchedAt >= store[i].fetchedAt]_vars

-----------------------------------------------------------------------------
(* C29: called with the same input on the same store, the database and the  *)
(* API behaving the same way, getOrFetchUser returns a record exactly when  *)
(* lookupUser returns success, the same record, and returns null exactly    *)
(* when lookupUser returns a failure.                                       *)
C29_SameOutcome ==
    (call[1].pc = "done" /\ call[2].pc = "done") =>
        LET lookup == call[1].result
            got == call[2].result
        IN  /\ (got.kind = "user") <=> (lookup.kind = "success")
            /\ got.kind = "user" => got.user = lookup.user
            /\ (got.kind = "null") <=> (lookup.kind = "failure")

-----------------------------------------------------------------------------
(* C30: the current step read from the pathname is in 1..7, step 1 for a    *)
(* slug that is no step, and stays there under Next, Back and indicator     *)
(* clicks: Next goes from step k < 7 to k + 1, Back from k > 1 to k - 1, an *)
(* indicator click goes to the step clicked when it is strictly earlier and *)
(* nowhere otherwise; the handler of Back does nothing at step 1, and the   *)
(* handler of Next on step 7 pushes the home page and no step.              *)
SlugOf(step) == STEPS[step]
IsStepPath(target, step) ==
    target # Null /\ Len(The(target)) = 3 /\ The(target)[3] = SlugOf(step)

C30_StepNavigation ==
    [][LET k == CurrentStep(arg)
           k1 == CurrentStep(arg')
           event == The(out')
           user == UserOf(arg)
       IN  /\ k \in 1..7 /\ k1 \in 1..7
           /\ CurrentSlug(arg) \notin {STEPS[i] : i \in 1..7} => k = 1
           /\ CurrentSlug(arg) \in {STEPS[i] : i \in 1..7} => SlugOf(k) = CurrentSlug(arg)
           /\ event.event = "next" => k < 7 /\ k1 = k + 1
           /\ event.event = "back" => k > 1 /\ k1 = k - 1
           /\ event.event = "indicator" =>
                 IF event.step < k THEN k1 = event.step ELSE arg' = arg
           /\ Mounted =>
                 /\ handleBack(user, 1) = Null
                 /\ handleNext(user, 7) = Some(<<>>)
                 /\ \A j \in 1..6 : IsStepPath(handleNext(user, j), j + 1)
                 /\ \A j \in 2..7 : IsStepPath(handleBack(user, j), j - 1)
                 /\ \A j, step \in 1..7 :
                       IF step < j THEN IsStepPath(handleClick(user, step, j), step)
                       ELSE handleClick(user, step, j) = Null]_vars

\* the indicator of step 2 was clicked on the summary, the last step, and
\* the page is on step 2
C30_Witness ==
    /\ out # <<>>
    /\ The(out).event = "indicator" /\ The(out).step = 2 /\ The(out).from = 7
    /\ CurrentStep(arg) = 2
    /\ arg = <<"retrospective", <<"a", "b">>, "total-commits">>

====
